---- MODULE Spec2Model ----
(***************************************************************************)
(* State-machine model of BingoServer (src/server.ts): the game session,   *)
(* the player registry, the admin slot, the two interval timers and the    *)
(* WebSocket connections, with one action per message handler, timer       *)
(* callback and socket event.  Every handler runs to completion (single     *)
(* threaded event loop), so each is one atomic step.                        *)
(***************************************************************************)
EXTENDS Integers, Sequences, FiniteSets, TLC

\* ------------------------------------------------------------------ bounds
\* Number of WebSocket connections ever accepted.
NumSockets == 2
\* Math.floor(Math.random() * maxNumber) is sampled from 0..MaxRand-1 and maxNumber-1.
MaxRand == 2
\* The clock advances MaxTicks times, TimeStep milliseconds each.
MaxTicks == 2
\* The first client marks the numbers 1..MaxMark.
MaxMark == 5
\* Outside the "round" runs clients mark the numbers 1..TableMaxMark.
TableMaxMark == 1
\* Successful win claims per run.
MaxWinners == 1
\* player_register is sent while totalIncome stays within MaxIncome.
MaxIncome == 200

\* ------------------------------------------------------- program constants
maxNumber == 75
PingPeriod == 30000
PingTimeout == 120000
WinThreshold == 5
PotPlayers == 90
BoardIdRange == 100
ADMIN_PASSWORD == "asse2123"

\* `null` of a `number | null` field.
Null == -1

\* ------------------------------------------------------------ input sets
Sockets == 1..NumSockets
PlayerIds == {"p1", "p2"}
\* data.playerName of player_connect; "" is falsy, so it becomes 'Guest'.
PlayerNames == {"", "Ann"}
Passwords == {ADMIN_PASSWORD, "wrong"}
\* The payloads of player_register.
Registrations ==
    { [name |-> "Bob", phone |-> "0911", stake |-> 100, boardType |-> "90ball"] }
\* The payload of player_register in the scripted session.
EndToEndRegistrations ==
    { [name |-> "Ann", phone |-> "", stake |-> 50, boardType |-> "75ball"] }
\* data.boardType of claim_win.
ClaimBoardTypes == {"75ball", "50ball", "90ball", "pattern", "other"}
\* Values of Math.floor(Math.random() * maxNumber) the model samples.
RandomFloors == (0..(MaxRand - 1)) \cup {maxNumber - 1}
\* Values of Math.floor(Math.random() * 100) the model samples.
BoardFloors == {BoardIdRange - 1}
\* Date.now() moves on a grid of one heartbeat timeout (four ping periods).
TimeStep == PingTimeout

\* ---------------------------------------------------------------- scenarios
\* The environment of a run: which events the clients and timers produce.
\* Every run has connections, admin logins and players.  A "draw" run is about
\* number calling and the phases; a "round" run follows one player through
\* registration, marking and win claims; a "table" run has two players who
\* mark and claim; a "registry" run is about disconnects, the passing of time,
\* keep-alives and the heartbeat sweep; a "ledger" run has one client who wins
\* round after round; an "exhaust" run calls number after number until none is
\* left; a "sweep" run has clients that connect, ping or fall silent while
\* time passes; an "e2e" run, a "switch" run, a "handover" run and a "repeat"
\* run are scripted sessions.
Scenarios ==
    {"draw", "round", "table", "registry", "ledger", "exhaust", "sweep", "e2e",
     "switch", "handover", "repeat"}

\* The runs that follow a script.
Scripted == {"e2e", "switch", "handover", "repeat"}

\* The session of an "e2e" run, event by event: a client connects, registers,
\* the round is started, and every sampled number is called.
EndToEndScript ==
    <<"open", "player_connect", "player_register", "start_game">>
        \o [i \in 1..(MaxRand + 1) |-> "call_number"]

\* The session of a "switch" run: a number is called in a round, then
\* auto-call is switched on and, before its timer fires, off again.
SwitchScript ==
    <<"open", "admin_auth", "start_game", "call_number", "toggle_auto_call",
      "toggle_auto_call">>

\* The session of a "handover" run: a client connects as a player on one
\* connection, later connects again under the same id on a second connection,
\* and later still the first connection closes.
HandoverScript ==
    <<"open", "player_connect", "open", "time", "player_connect", "time", "close">>

\* The connection of each event of a "handover" run (0: a clock event).
HandoverSockets == <<1, 1, 2, 0, 2, 0, 1>>

\* The session of a "repeat" run: in a round auto-call is switched on twice in
\* a row, the timer fires once, and auto-call is switched off.
RepeatScript ==
    <<"open", "start_game", "toggle_auto_call", "toggle_auto_call", "auto_call",
      "toggle_auto_call">>

\* The connection of each event of a "repeat" run (0: a timer event).
RepeatSockets == <<1, 1, 1, 1, 0, 1>>

\* The events of a "repeat" run before the disabling toggle_auto_call.
RepeatEnabling == Len(RepeatScript) - 1

\* The events of a scripted run, in order; the timers fire once it is over.
Script(sc) ==
    IF sc = "e2e" THEN EndToEndScript
    ELSE IF sc = "handover" THEN HandoverScript
    ELSE IF sc = "repeat" THEN RepeatScript
    ELSE SwitchScript

\* The connection the n-th event of a scripted run arrives on.
ScriptSocket(sc, n) ==
    IF sc = "handover" THEN HandoverSockets[n]
    ELSE IF sc = "repeat" THEN RepeatSockets[n]
    ELSE 1

ScenarioEvents(sc) ==
    IF sc = "draw"
    THEN {"open", "close", "admin_auth", "player_connect", "start_game", "pause_game",
          "end_game", "call_number", "toggle_auto_call", "auto_call", "clear_numbers",
          "get_players", "unknown", "malformed"}
    ELSE IF sc = "round"
    THEN {"open", "admin_auth", "player_connect", "player_register", "mark_number",
          "claim_win", "start_game", "pause_game", "end_game"}
    ELSE IF sc = "table"
    THEN {"open", "admin_auth", "player_connect", "mark_number", "claim_win",
          "start_game", "pause_game", "end_game"}
    ELSE IF sc = "registry"
    THEN {"open", "close", "admin_auth", "player_connect", "player_register", "ping",
          "time", "pingClients", "get_players"}
    ELSE IF sc = "ledger"
    THEN {"open", "player_connect", "player_register", "mark_number", "claim_win",
          "start_game", "pause_game", "end_game", "clear_numbers"}
    ELSE IF sc = "exhaust"
    THEN {"open", "start_game", "call_number"}
    ELSE IF sc = "sweep"
    THEN {"open", "close", "player_connect", "ping", "time", "pingClients"}
    ELSE {"auto_call"}

\* The connections a run accepts.
ScenarioSockets(sc) ==
    IF sc \in {"ledger", "exhaust", "e2e", "switch", "repeat"} THEN {1} ELSE Sockets

\* The ids clients present in a run.
ScenarioPlayers(sc) ==
    IF sc \in {"table", "registry", "sweep"} THEN PlayerIds ELSE {"p1"}

\* The names clients present in a run.
ScenarioPlayerNames(sc) == IF sc = "round" THEN PlayerNames ELSE {"Ann"}

\* The passwords tried in a run.
ScenarioPasswords(sc) == IF sc \in {"draw", "registry"} THEN Passwords ELSE {ADMIN_PASSWORD}

\* The numbers clients mark in a run are 1..MarkLimit.
MarkLimit(sc) == IF sc \in {"round", "ledger"} THEN MaxMark ELSE TableMaxMark

\* The payloads of player_register in a run.
ScenarioRegistrations(sc) == IF sc = "e2e" THEN EndToEndRegistrations ELSE Registrations

\* The board types claimed in a run.
ScenarioBoardTypes(sc) == IF sc = "ledger" THEN {"90ball"} ELSE ClaimBoardTypes

\* Successful win claims in a run.
WinnerLimit(sc) == IF sc = "ledger" THEN MaxWinners + 1 ELSE MaxWinners

\* The values of Math.floor(Math.random() * maxNumber) in a run.  In an
\* "exhaust" run the generator yields 0, 1, 2, ... in turn, so that every draw
\* is fresh until all maxNumber numbers are called.
ScenarioRandomFloors(sc, called) ==
    IF sc = "exhaust" THEN {Len(called) % maxNumber} ELSE RandomFloors

VARIABLES
    status,            \* gameState.status
    calledNumbers,     \* gameState.calledNumbers
    currentNumber,     \* gameState.currentNumber
    autoCall,          \* gameState.autoCall
    autoCallInterval,  \* gameState.autoCallInterval: Null or a timer handle
    players,           \* gameState.players: the Map's entries in insertion order
    winners,           \* gameState.winners
    finance,           \* gameState.finance
    admin,             \* this.admin: <<>> for null, else <<[socket, authenticated]>>
    intervals,         \* handles of the live auto-call setInterval timers
    readyState,        \* readyState of every WebSocket
    now,               \* Date.now()
    sent,              \* messages handed to socket.send by the running handler, in order
    op,                \* the event being handled (its type, socket, playerId), or idle
    spinning,          \* the running handler is in a loop it cannot leave
    step,              \* events handled so far in a scripted run
    scenario           \* the environment of this run

sessionVars == <<status, calledNumbers, currentNumber, autoCall, autoCallInterval,
                 players, winners, finance, admin, intervals>>
vars == <<status, calledNumbers, currentNumber, autoCall, autoCallInterval,
          players, winners, finance, admin, intervals, readyState, now, sent, op,
          spinning, step, scenario>>

\* ---------------------------------------------------------------- helpers
Range(s) == { s[i] : i \in 1..Len(s) }

Min(a, b) == IF a < b THEN a ELSE b

\* players.has(id)
HasPlayer(ps, id) == \E i \in 1..Len(ps) : ps[i].id = id

\* Position of players.get(id) in the Map's iteration order.
PlayerIndex(ps, id) == CHOOSE i \in 1..Len(ps) : ps[i].id = id

\* players.get(id)
GetPlayer(ps, id) == ps[PlayerIndex(ps, id)]

\* players.delete(id) for every id in ids.
DeletePlayers(ps, ids) == SelectSeq(ps, LAMBDA p : p.id \notin ids)

Event(type, socket, playerId) == [type |-> type, socket |-> socket, playerId |-> playerId]

\* The event loop waits for the next event.
IdleEvent == Event("idle", 0, "")

\* An outbound payload before it is addressed.
Data(type) == [to |-> 0, type |-> type]
ErrorData(message) == [to |-> 0, type |-> "error", message |-> message]

\* sendToSocket: the payload reaches the socket only if it is OPEN.
sendToSocket(rs, socket, data) ==
    IF rs[socket] = "OPEN" THEN << [data EXCEPT !.to = socket] >> ELSE << >>

\* A slip of broadcastToAllPlayers: the state of the socket is not looked at.
broadcastToAllPlayersFlagged(ps, rs, data) ==
    LET flagged == SelectSeq(ps, LAMBDA p : p.connected)
    IN  [i \in 1..Len(flagged) |-> [data EXCEPT !.to = flagged[i].socket]]

\* broadcastToAllPlayers: every entry flagged connected whose socket is OPEN,
\* in Map order.
broadcastToAllPlayers(ps, rs, data) ==
    LET live == SelectSeq(ps, LAMBDA p : p.connected /\ rs[p.socket] = "OPEN")
    IN  [i \in 1..Len(live) |-> [data EXCEPT !.to = live[i].socket]]

\* The shared guard of the send*ToAdmin methods.
AdminOpen(adm, rs) ==
    /\ adm # << >>
    /\ adm[1].authenticated
    /\ rs[adm[1].socket] = "OPEN"

sendToAdmin(adm, rs, data) ==
    IF AdminOpen(adm, rs) THEN sendToSocket(rs, adm[1].socket, data) ELSE << >>

sendGameStateToAdmin(adm, rs) == sendToAdmin(adm, rs, Data("game_state"))
sendPlayersUpdateToAdmin(adm, rs) == sendToAdmin(adm, rs, Data("players_update"))
sendCalledNumbersToAdmin(adm, rs) == sendToAdmin(adm, rs, Data("called_numbers"))
sendWinnersUpdateToAdmin(adm, rs) == sendToAdmin(adm, rs, Data("winners_update"))
sendFinanceUpdateToAdmin(adm, rs) == sendToAdmin(adm, rs, Data("finance_update"))

\* A slip of DrawAccepted: the first draw is taken, called before or not.
DrawAcceptedUnchecked(called, number) == TRUE

\* The do-while of callRandomNumber leaves the loop with the first draw that
\* calledNumbers does not include.
DrawAccepted(called, number) == number \notin Range(called)

\* No draw can end the do-while of callRandomNumber: all of 1..maxNumber are
\* called already.
Exhausted(called) == \A number \in 1..maxNumber : ~DrawAccepted(called, number)

\* The handler of the event never returns: callRandomNumber gets past its
\* phase check and every draw of its do-while is rejected.
NeverReturns(event) ==
    /\ event.type \in {"call_number", "auto_call"}
    /\ status = "playing"
    /\ Exhausted(calledNumbers)

\* ------------------------------------------------------------------- Init
Init ==
    /\ status = "waiting"
    /\ calledNumbers = << >>
    /\ currentNumber = Null
    /\ autoCall = FALSE
    /\ autoCallInterval = Null
    /\ players = << >>
    /\ winners = << >>
    /\ finance = [totalIncome |-> 0, totalPayout |-> 0, currentBalance |-> 0]
    /\ admin = << >>
    /\ intervals = {}
    /\ readyState = [s \in Sockets |-> "NONE"]
    /\ now = 0
    /\ sent = << >>
    /\ op = IdleEvent
    /\ spinning = FALSE
    /\ step = 0
    /\ scenario \in Scenarios

\* ------------------------------------------------------- socket events
\* The idle event loop takes up an event the run's environment produces.
Happens(event) ==
    /\ op = IdleEvent
    /\ IF scenario \in Scripted /\ step < Len(Script(scenario))
       THEN /\ event.type = Script(scenario)[step + 1]
            /\ event.socket = ScriptSocket(scenario, step + 1)
            /\ step' = step + 1
       ELSE /\ event.type \in ScenarioEvents(scenario)
            /\ step' = step
    /\ op' = event
    /\ spinning' = NeverReturns(event)
    /\ UNCHANGED scenario

\* socket.onmessage: messages are delivered on an OPEN socket only.
Receive(socket, type, playerId) ==
    /\ readyState[socket] = "OPEN"
    /\ Happens(Event(type, socket, playerId))

\* The handler returns to the event loop; what it sent has left the process.
Return ==
    /\ op # IdleEvent
    /\ ~spinning
    /\ op' = IdleEvent
    /\ sent' = << >>
    /\ UNCHANGED <<sessionVars, readyState, now, spinning, step, scenario>>

\* handleWebSocket + socket.onopen: a new connection is greeted.
WebSocketOpen(socket) ==
    /\ socket \in ScenarioSockets(scenario)
    /\ readyState[socket] = "NONE"
    /\ Happens(Event("open", socket, ""))
    /\ readyState' = [readyState EXCEPT ![socket] = "OPEN"]
    /\ sent' = sendToSocket(readyState', socket, Data("connection_established"))
    /\ UNCHANGED <<sessionVars, now>>

\* A slip of handleDisconnect: the admin slot survives the close of its socket.
handleDisconnectKeepingAdmin(socket) ==
    /\ readyState' = [readyState EXCEPT ![socket] = "CLOSED"]
    /\ sent' = << >>
    /\ UNCHANGED <<sessionVars, now>>

\* A slip of handleDisconnect: the player is looked up by its connected flag,
\* not by the socket that closed.
handleDisconnectAnyConnected(socket) ==
    LET rs == [readyState EXCEPT ![socket] = "CLOSED"]
        holders == { i \in 1..Len(players) : players[i].connected }
    IN  /\ readyState' = rs
        /\ IF admin # << >> /\ admin[1].socket = socket
           THEN /\ admin' = << >>
                /\ sent' = << >>
                /\ UNCHANGED players
           ELSE IF holders # {}
           THEN LET i == CHOOSE j \in holders : \A k \in holders : j <= k
                    ps == [players EXCEPT ![i] =
                              [@ EXCEPT !.connected = FALSE, !.lastPing = now]]
                IN  /\ players' = ps
                    /\ sent' = sendPlayersUpdateToAdmin(admin, rs)
                                 \o broadcastToAllPlayers(ps, rs, Data("player_left"))
                    /\ UNCHANGED admin
           ELSE /\ sent' = << >>
                /\ UNCHANGED <<players, admin>>
        /\ UNCHANGED <<status, calledNumbers, currentNumber, autoCall, autoCallInterval,
                       winners, finance, intervals, now>>

\* handleDisconnect.  The socket is CLOSED when onclose fires.
handleDisconnect(socket) ==
    LET rs == [readyState EXCEPT ![socket] = "CLOSED"]
        holders == { i \in 1..Len(players) : players[i].socket = socket }
    IN  /\ readyState' = rs
        /\ IF admin # << >> /\ admin[1].socket = socket
           THEN /\ admin' = << >>
                /\ sent' = << >>
                /\ UNCHANGED players
           ELSE IF holders # {}
           THEN LET i == CHOOSE j \in holders : \A k \in holders : j <= k
                    ps == [players EXCEPT ![i] =
                              [@ EXCEPT !.connected = FALSE, !.lastPing = now]]
                IN  /\ players' = ps
                    /\ sent' = sendPlayersUpdateToAdmin(admin, rs)
                                 \o broadcastToAllPlayers(ps, rs, Data("player_left"))
                    /\ UNCHANGED admin
           ELSE /\ sent' = << >>
                /\ UNCHANGED <<players, admin>>
        /\ UNCHANGED <<status, calledNumbers, currentNumber, autoCall, autoCallInterval,
                       winners, finance, intervals, now>>

\* socket.onclose: the client went away, or a close the server began completes.
WebSocketClose(socket) ==
    /\ readyState[socket] \in {"OPEN", "CLOSING"}
    /\ Happens(Event("close", socket, ""))
    /\ handleDisconnect(socket)

\* ------------------------------------------------------- message handlers
handleAdminAuth(socket, password) ==
    /\ IF password = ADMIN_PASSWORD
       THEN LET adm == << [socket |-> socket, authenticated |-> TRUE] >>
            IN  /\ admin' = adm
                /\ sent' = sendToSocket(readyState, socket, Data("auth_success"))
                             \o sendGameStateToAdmin(adm, readyState)
                /\ UNCHANGED readyState
       ELSE /\ sent' = sendToSocket(readyState, socket, Data("auth_failed"))
            /\ readyState' = [readyState EXCEPT ![socket] = "CLOSING"]
            /\ UNCHANGED admin
    /\ UNCHANGED <<status, calledNumbers, currentNumber, autoCall, autoCallInterval,
                   players, winners, finance, intervals, now>>

\* A slip of handlePlayerConnect: a reconnect takes the name of the message.
handlePlayerConnectRenaming(socket, playerId, playerName, boardFloor) ==
    LET name == IF playerName = "" THEN "Guest" ELSE playerName
        ps == IF HasPlayer(players, playerId)
              THEN [players EXCEPT ![PlayerIndex(players, playerId)] =
                       [@ EXCEPT !.socket = socket, !.connected = TRUE, !.lastPing = now,
                                 !.name = name]]
              ELSE Append(players,
                       [id |-> playerId,
                        name |-> name,
                        phone |-> "",
                        stake |-> 0,
                        boardType |-> "75ball",
                        boardId |-> boardFloor + 1,
                        connected |-> TRUE,
                        socket |-> socket,
                        markedNumbers |-> << >>,
                        lastPing |-> now])
    IN  /\ players' = ps
        /\ sent' = sendToSocket(readyState, socket, Data("game_state"))
                     \o sendPlayersUpdateToAdmin(admin, readyState)
        /\ UNCHANGED <<status, calledNumbers, currentNumber, autoCall, autoCallInterval,
                       winners, finance, admin, intervals, readyState, now>>

handlePlayerConnect(socket, playerId, playerName, boardFloor) ==
    LET ps == IF HasPlayer(players, playerId)
              THEN [players EXCEPT ![PlayerIndex(players, playerId)] =
                       [@ EXCEPT !.socket = socket, !.connected = TRUE, !.lastPing = now]]
              ELSE Append(players,
                       [id |-> playerId,
                        name |-> IF playerName = "" THEN "Guest" ELSE playerName,
                        phone |-> "",
                        stake |-> 0,
                        boardType |-> "75ball",
                        boardId |-> boardFloor + 1,
                        connected |-> TRUE,
                        socket |-> socket,
                        markedNumbers |-> << >>,
                        lastPing |-> now])
    IN  /\ players' = ps
        /\ sent' = sendToSocket(readyState, socket, Data("game_state"))
                     \o sendPlayersUpdateToAdmin(admin, readyState)
        /\ UNCHANGED <<status, calledNumbers, currentNumber, autoCall, autoCallInterval,
                       winners, finance, admin, intervals, readyState, now>>

\* A slip of AddIncome: the stake reaches the balance but not the income.
AddIncomeBalanceOnly(fin, stake) == [fin EXCEPT !.currentBalance = @ + stake]

\* totalIncome += stake; currentBalance += stake
AddIncome(fin, stake) ==
    [fin EXCEPT !.totalIncome = @ + stake, !.currentBalance = @ + stake]

handlePlayerRegister(socket, data) ==
    /\ IF HasPlayer(players, data.playerId)
       THEN LET ps == [players EXCEPT ![PlayerIndex(players, data.playerId)] =
                          [@ EXCEPT !.name = data.name, !.phone = data.phone,
                                    !.stake = data.stake, !.boardType = data.boardType]]
            IN  /\ players' = ps
                /\ finance' = AddIncome(finance, data.stake)
                /\ sent' = sendToSocket(readyState, socket, Data("registration_success"))
                             \o sendPlayersUpdateToAdmin(admin, readyState)
                             \o sendFinanceUpdateToAdmin(admin, readyState)
                             \o broadcastToAllPlayers(ps, readyState, Data("player_joined"))
       ELSE /\ sent' = << >>
            /\ UNCHANGED <<players, finance>>
    /\ UNCHANGED <<status, calledNumbers, currentNumber, autoCall, autoCallInterval,
                   winners, admin, intervals, readyState, now>>

handleMarkNumber(socket, playerId, number) ==
    /\ IF HasPlayer(players, playerId)
          /\ number \notin Range(GetPlayer(players, playerId).markedNumbers)
       THEN LET ps == [players EXCEPT ![PlayerIndex(players, playerId)] =
                          [@ EXCEPT !.markedNumbers = Append(@, number)]]
            IN  /\ players' = ps
                /\ sent' = sendToSocket(readyState, socket,
                               [to |-> 0, type |-> "number_marked", number |-> number])
       ELSE /\ sent' = << >>
            /\ UNCHANGED players
    /\ UNCHANGED <<status, calledNumbers, currentNumber, autoCall, autoCallInterval,
                   winners, finance, admin, intervals, readyState, now>>

\* `null` of checkWinPattern's `string | null` result.
NoPattern == "null"

\* A slip of checkWinPattern: any non-empty card qualifies.
checkWinPatternAnyMark(markedNumbers, boardType) ==
    IF Len(markedNumbers) >= 1
    THEN IF boardType = "75ball" \/ boardType = "50ball" THEN "Row Pattern"
         ELSE IF boardType = "90ball" THEN "Line Pattern"
         ELSE IF boardType = "pattern" THEN "Special Pattern"
         ELSE "Full House"
    ELSE NoPattern

checkWinPattern(markedNumbers, boardType) ==
    IF Len(markedNumbers) >= WinThreshold
    THEN IF boardType = "75ball" \/ boardType = "50ball" THEN "Row Pattern"
         ELSE IF boardType = "90ball" THEN "Line Pattern"
         ELSE IF boardType = "pattern" THEN "Special Pattern"
         ELSE "Full House"
    ELSE NoPattern

\* A slip of calculateWinAmount: the 3% service fee is not taken.
calculateWinAmountNoFee(stake) == (PotPlayers * stake * 8) \div 10

\* Math.floor(90 * stake * 0.8 * 0.97).  For integer stakes the double
\* arithmetic of the code gives the exact floor: 90 * stake * 0.8 rounds to the
\* integer 72 * stake, and the product with 0.97 is an integer or at least
\* 1/25 away from one.
calculateWinAmount(stake) == (PotPlayers * stake * 8 * 97) \div 1000

\* A slip of AddPayout: the payout is booked but never taken from the balance.
AddPayoutKeepingBalance(fin, winAmount) ==
    [fin EXCEPT !.totalPayout = @ + winAmount]

\* totalPayout += winAmount; currentBalance -= winAmount
AddPayout(fin, winAmount) ==
    [fin EXCEPT !.totalPayout = @ + winAmount, !.currentBalance = @ - winAmount]

\* The claim passes all three checks of handleClaimWin.
ClaimSucceeds(data) ==
    /\ status = "playing"
    /\ HasPlayer(players, data.playerId)
    /\ checkWinPattern(GetPlayer(players, data.playerId).markedNumbers, data.boardType)
          # NoPattern

handleClaimWin(socket, data) ==
    /\ IF status # "playing"
       THEN /\ sent' = sendToSocket(readyState, socket, ErrorData("Game is not active"))
            /\ UNCHANGED <<winners, finance>>
       ELSE IF ~HasPlayer(players, data.playerId)
       THEN /\ sent' = sendToSocket(readyState, socket, ErrorData("Player not found"))
            /\ UNCHANGED <<winners, finance>>
       ELSE LET player == GetPlayer(players, data.playerId)
                winPattern == checkWinPattern(player.markedNumbers, data.boardType)
                winAmount == calculateWinAmount(player.stake)
                winner == [playerId |-> player.id, name |-> player.name,
                           pattern |-> winPattern, amount |-> winAmount, time |-> now]
            IN  IF winPattern # NoPattern
                THEN /\ winners' = Append(winners, winner)
                     /\ finance' = AddPayout(finance, winAmount)
                     /\ sent' = broadcastToAllPlayers(players, readyState,
                                    [to |-> 0, type |-> "winner_declared",
                                     pattern |-> winPattern, amount |-> winAmount])
                                  \o sendToSocket(readyState, socket,
                                    [to |-> 0, type |-> "win_confirmed",
                                     pattern |-> winPattern, amount |-> winAmount])
                                  \o sendWinnersUpdateToAdmin(admin, readyState)
                                  \o sendFinanceUpdateToAdmin(admin, readyState)
                ELSE /\ sent' = sendToSocket(readyState, socket,
                                    ErrorData("No winning pattern found"))
                     /\ UNCHANGED <<winners, finance>>
    /\ UNCHANGED <<status, calledNumbers, currentNumber, autoCall, autoCallInterval,
                   players, admin, intervals, readyState, now>>

\* A slip of ResetMarkedNumbers: the marks survive the start of a round.
ResetMarkedNumbersSkipped(ps) == ps

\* players.forEach(player => { player.markedNumbers = [] })
ResetMarkedNumbers(ps) == [i \in 1..Len(ps) |-> [ps[i] EXCEPT !.markedNumbers = << >>]]

handleStartGame ==
    /\ IF status = "waiting" \/ status = "ended"
       THEN LET ps == ResetMarkedNumbers(players)
            IN  /\ status' = "playing"
                /\ calledNumbers' = << >>
                /\ currentNumber' = Null
                /\ players' = ps
                /\ sent' = broadcastToAllPlayers(ps, readyState, Data("game_started"))
                             \o sendGameStateToAdmin(admin, readyState)
       ELSE /\ sent' = << >>
            /\ UNCHANGED <<status, calledNumbers, currentNumber, players>>
    /\ UNCHANGED <<autoCall, autoCallInterval, winners, finance, admin, intervals,
                   readyState, now>>

\* A slip of handlePauseGame: pausing also stops auto-call.
handlePauseGameStoppingAutoCall ==
    /\ IF status = "playing"
       THEN /\ status' = "paused"
            /\ autoCall' = FALSE
            /\ autoCallInterval' = Null
            /\ intervals' = {}
            /\ sent' = broadcastToAllPlayers(players, readyState, Data("game_paused"))
                         \o sendGameStateToAdmin(admin, readyState)
       ELSE IF status = "paused"
       THEN /\ status' = "playing"
            /\ sent' = broadcastToAllPlayers(players, readyState, Data("game_resumed"))
                         \o sendGameStateToAdmin(admin, readyState)
            /\ UNCHANGED <<autoCall, autoCallInterval, intervals>>
       ELSE /\ sent' = << >>
            /\ UNCHANGED <<status, autoCall, autoCallInterval, intervals>>
    /\ UNCHANGED <<calledNumbers, currentNumber, players, winners, finance, admin,
                   readyState, now>>

handlePauseGame ==
    /\ IF status = "playing"
       THEN /\ status' = "paused"
            /\ sent' = broadcastToAllPlayers(players, readyState, Data("game_paused"))
                         \o sendGameStateToAdmin(admin, readyState)
       ELSE IF status = "paused"
       THEN /\ status' = "playing"
            /\ sent' = broadcastToAllPlayers(players, readyState, Data("game_resumed"))
                         \o sendGameStateToAdmin(admin, readyState)
       ELSE /\ sent' = << >>
            /\ UNCHANGED status
    /\ UNCHANGED <<calledNumbers, currentNumber, autoCall, autoCallInterval, players,
                   winners, finance, admin, intervals, readyState, now>>

\* A slip of handleEndGame: the end of a round empties the ledgers.
handleEndGameResettingLedgers ==
    /\ status' = "ended"
    /\ winners' = << >>
    /\ finance' = [totalIncome |-> 0, totalPayout |-> 0, currentBalance |-> 0]
    /\ sent' = broadcastToAllPlayers(players, readyState, Data("game_ended"))
                 \o sendGameStateToAdmin(admin, readyState)
    /\ UNCHANGED <<calledNumbers, currentNumber, autoCall, autoCallInterval, players,
                   admin, intervals, readyState, now>>

handleEndGame ==
    /\ status' = "ended"
    /\ sent' = broadcastToAllPlayers(players, readyState, Data("game_ended"))
                 \o sendGameStateToAdmin(admin, readyState)
    /\ UNCHANGED <<calledNumbers, currentNumber, autoCall, autoCallInterval, players,
                   winners, finance, admin, intervals, readyState, now>>

\* A slip of callRandomNumber: the phase is not looked at.
callRandomNumberInAnyPhase(randomFloor) ==
    LET number == randomFloor + 1
    IN  /\ number \notin Range(calledNumbers)
        /\ calledNumbers' = Append(calledNumbers, number)
        /\ currentNumber' = number
        /\ sent' = broadcastToAllPlayers(players, readyState,
                       [to |-> 0, type |-> "number_called", number |-> number])
                     \o sendCalledNumbersToAdmin(admin, readyState)
        /\ UNCHANGED <<status, autoCall, autoCallInterval, players, winners, finance,
                       admin, intervals, readyState, now>>

\* randomFloor is Math.floor(Math.random() * maxNumber) of the last iteration.
callRandomNumber(randomFloor) ==
    /\ IF status # "playing"
       THEN /\ sent' = << >>
            /\ UNCHANGED <<calledNumbers, currentNumber>>
       ELSE IF Exhausted(calledNumbers)
       THEN /\ sent' = << >>
            /\ UNCHANGED <<calledNumbers, currentNumber>>
       ELSE LET number == randomFloor + 1
            IN  /\ DrawAccepted(calledNumbers, number)
                /\ calledNumbers' = Append(calledNumbers, number)
                /\ currentNumber' = number
                /\ sent' = broadcastToAllPlayers(players, readyState,
                               [to |-> 0, type |-> "number_called", number |-> number])
                             \o sendCalledNumbersToAdmin(admin, readyState)
    /\ UNCHANGED <<status, autoCall, autoCallInterval, players, winners, finance,
                   admin, intervals, readyState, now>>

\* setInterval returns a handle no live timer has (handles are positive).
NewHandle(live) == CHOOSE h \in 1..(Cardinality(live) + 1) : h \notin live

\* A slip of toggleAutoCall: disabling forgets clearInterval.
toggleAutoCallLeavingTimer(enabled) ==
    /\ IF enabled /\ autoCallInterval = Null
       THEN LET h == NewHandle(intervals)
            IN  /\ autoCall' = TRUE
                /\ autoCallInterval' = h
                /\ intervals' = intervals \cup {h}
       ELSE IF ~enabled /\ autoCallInterval # Null
       THEN /\ autoCall' = FALSE
            /\ autoCallInterval' = Null
            /\ UNCHANGED intervals
       ELSE UNCHANGED <<autoCall, autoCallInterval, intervals>>
    /\ sent' = sendGameStateToAdmin(admin, readyState)
    /\ UNCHANGED <<status, calledNumbers, currentNumber, players, winners, finance,
                   admin, readyState, now>>

\* A slip of toggleAutoCall: enabling does not look for a timer already set.
toggleAutoCallAlwaysScheduling(enabled) ==
    /\ IF enabled
       THEN LET h == NewHandle(intervals)
            IN  /\ autoCall' = TRUE
                /\ autoCallInterval' = h
                /\ intervals' = intervals \cup {h}
       ELSE IF autoCallInterval # Null
       THEN /\ autoCall' = FALSE
            /\ intervals' = intervals \ {autoCallInterval}
            /\ autoCallInterval' = Null
       ELSE UNCHANGED <<autoCall, autoCallInterval, intervals>>
    /\ sent' = sendGameStateToAdmin(admin, readyState)
    /\ UNCHANGED <<status, calledNumbers, currentNumber, players, winners, finance,
                   admin, readyState, now>>

toggleAutoCall(enabled) ==
    /\ IF enabled /\ autoCallInterval = Null
       THEN LET h == NewHandle(intervals)
            IN  /\ autoCall' = TRUE
                /\ autoCallInterval' = h
                /\ intervals' = intervals \cup {h}
       ELSE IF ~enabled /\ autoCallInterval # Null
       THEN /\ autoCall' = FALSE
            /\ intervals' = intervals \ {autoCallInterval}
            /\ autoCallInterval' = Null
       ELSE UNCHANGED <<autoCall, autoCallInterval, intervals>>
    /\ sent' = sendGameStateToAdmin(admin, readyState)
    /\ UNCHANGED <<status, calledNumbers, currentNumber, players, winners, finance,
                   admin, readyState, now>>

\* A slip of clearCalledNumbers: the current number is left as it was.
clearCalledNumbersKeepingCurrent ==
    /\ calledNumbers' = << >>
    /\ sent' = sendCalledNumbersToAdmin(admin, readyState)
    /\ UNCHANGED <<status, currentNumber, autoCall, autoCallInterval, players, winners,
                   finance, admin, intervals, readyState, now>>

clearCalledNumbers ==
    /\ calledNumbers' = << >>
    /\ currentNumber' = Null
    /\ sent' = sendCalledNumbersToAdmin(admin, readyState)
    /\ UNCHANGED <<status, autoCall, autoCallInterval, players, winners, finance,
                   admin, intervals, readyState, now>>

handlePing(socket, playerId) ==
    /\ IF HasPlayer(players, playerId)
       THEN players' = [players EXCEPT ![PlayerIndex(players, playerId)] =
                           [@ EXCEPT !.lastPing = now]]
       ELSE UNCHANGED players
    /\ sent' = sendToSocket(readyState, socket, Data("pong"))
    /\ UNCHANGED <<status, calledNumbers, currentNumber, autoCall, autoCallInterval,
                   winners, finance, admin, intervals, readyState, now>>

\* get_players
sendPlayersUpdate(socket) ==
    /\ sent' = sendToSocket(readyState, socket, Data("players_update"))
    /\ UNCHANGED <<sessionVars, readyState, now>>

\* A slip of the default branch: the sender is closed like a failed login.
handleUnknownTypeClosing(socket) ==
    /\ sent' = sendToSocket(readyState, socket, ErrorData("Unknown message type"))
    /\ readyState' = [readyState EXCEPT ![socket] = "CLOSING"]
    /\ UNCHANGED <<sessionVars, now>>

\* The default branch of handleMessage's switch.
handleUnknownType(socket) ==
    /\ sent' = sendToSocket(readyState, socket, ErrorData("Unknown message type"))
    /\ UNCHANGED <<sessionVars, readyState, now>>

\* socket.onmessage when JSON.parse throws.
handleParseFailure(socket) ==
    /\ sent' = sendToSocket(readyState, socket, ErrorData("Invalid message format"))
    /\ UNCHANGED <<sessionVars, readyState, now>>

\* ------------------------------------------------------------ timers
\* A slip of Stale: a player is dropped at the timeout, not after it.
StaleAtTimeout(t, player) == t - player.lastPing >= PingTimeout

\* The timeout test of the sweep, at time t.
Stale(t, player) == t - player.lastPing > PingTimeout

\* The ids pingClients collects in disconnectedPlayers, in Map order.
DisconnectedPlayers ==
    LET gone == SelectSeq(players, LAMBDA p : Stale(now, p))
    IN  [i \in 1..Len(gone) |-> gone[i].id]

\* A slip of pingClients: stale players are flagged but stay in the registry.
pingClientsFlaggingOnly ==
    LET pinged == SelectSeq(players,
                      LAMBDA p : /\ ~Stale(now, p)
                                 /\ p.connected
                                 /\ readyState[p.socket] = "OPEN")
    IN  /\ players' = [i \in 1..Len(players) |->
                          IF Stale(now, players[i])
                          THEN [players[i] EXCEPT !.connected = FALSE]
                          ELSE players[i]]
        /\ sent' = [i \in 1..Len(pinged) |-> [to |-> pinged[i].socket, type |-> "ping"]]
                     \o (IF Len(DisconnectedPlayers) > 0
                         THEN sendPlayersUpdateToAdmin(admin, readyState)
                         ELSE << >>)
        /\ UNCHANGED <<status, calledNumbers, currentNumber, autoCall, autoCallInterval,
                       winners, finance, admin, intervals, readyState, now>>

\* The 30-second heartbeat sweep.
pingClients ==
    LET pinged == SelectSeq(players,
                      LAMBDA p : /\ ~Stale(now, p)
                                 /\ p.connected
                                 /\ readyState[p.socket] = "OPEN")
    IN  /\ players' = DeletePlayers(players, Range(DisconnectedPlayers))
        /\ sent' = [i \in 1..Len(pinged) |-> [to |-> pinged[i].socket, type |-> "ping"]]
                     \o (IF Len(DisconnectedPlayers) > 0
                         THEN sendPlayersUpdateToAdmin(admin, readyState)
                         ELSE << >>)
        /\ UNCHANGED <<status, calledNumbers, currentNumber, autoCall, autoCallInterval,
                       winners, finance, admin, intervals, readyState, now>>

\* The heartbeat interval set in the constructor fires every PingPeriod.
PingTimer ==
    /\ now > 0
    /\ now % PingPeriod = 0
    /\ Happens([type |-> "pingClients", socket |-> 0, playerId |-> "",
                disconnectedPlayers |-> DisconnectedPlayers])
    /\ pingClients

\* A live auto-call interval fires.
AutoCallTimer ==
    /\ intervals # {}
    /\ Happens(Event("auto_call", 0, ""))
    /\ \E randomFloor \in ScenarioRandomFloors(scenario, calledNumbers) :
          callRandomNumber(randomFloor)

\* Time passes between two events.
AdvanceTime ==
    /\ now < MaxTicks * TimeStep
    /\ Happens(Event("time", 0, ""))
    /\ now' = now + TimeStep
    /\ sent' = << >>
    /\ UNCHANGED <<sessionVars, readyState>>

\* ------------------------------------------------- dispatch (handleMessage)
AdminAuth(socket) ==
    /\ Receive(socket, "admin_auth", "")
    /\ \E password \in ScenarioPasswords(scenario) : handleAdminAuth(socket, password)

PlayerConnect(socket, playerId) ==
    /\ playerId \in ScenarioPlayers(scenario)
    /\ Receive(socket, "player_connect", playerId)
    /\ \E playerName \in ScenarioPlayerNames(scenario), boardFloor \in BoardFloors :
          handlePlayerConnect(socket, playerId, playerName, boardFloor)

PlayerRegister(socket, playerId) ==
    /\ playerId \in ScenarioPlayers(scenario)
    /\ Receive(socket, "player_register", playerId)
    /\ \E r \in ScenarioRegistrations(scenario) :
          /\ finance.totalIncome + r.stake <= MaxIncome
          /\ handlePlayerRegister(socket,
                 [playerId |-> playerId, name |-> r.name, phone |-> r.phone,
                  stake |-> r.stake, boardType |-> r.boardType])

\* The numbers a client marks: one already marked, or the next unmarked one.
MarkInputs(playerId) ==
    IF HasPlayer(players, playerId)
    THEN 1..Min(Len(GetPlayer(players, playerId).markedNumbers) + 1, MarkLimit(scenario))
    ELSE {1}

MarkNumber(socket, playerId) ==
    /\ Receive(socket, "mark_number", playerId)
    /\ \E number \in MarkInputs(playerId) : handleMarkNumber(socket, playerId, number)

ClaimWin(socket, playerId) ==
    /\ readyState[socket] = "OPEN"
    /\ \E boardType \in ScenarioBoardTypes(scenario) :
          LET data == [playerId |-> playerId, boardType |-> boardType]
          IN  /\ ClaimSucceeds(data) => Len(winners) < WinnerLimit(scenario)
              /\ Happens([type |-> "claim_win", socket |-> socket,
                          playerId |-> playerId, boardType |-> boardType])
              /\ handleClaimWin(socket, data)

StartGame(socket) == Receive(socket, "start_game", "") /\ handleStartGame

PauseGame(socket) == Receive(socket, "pause_game", "") /\ handlePauseGame

EndGame(socket) == Receive(socket, "end_game", "") /\ handleEndGame

CallNumber(socket) ==
    /\ Receive(socket, "call_number", "")
    /\ \E randomFloor \in ScenarioRandomFloors(scenario, calledNumbers) :
          callRandomNumber(randomFloor)

\* data.enabled of toggle_auto_call; in a "switch" run the switch is flipped,
\* in a "repeat" run it is on until the last event.
ToggleInputs ==
    IF scenario = "switch" THEN {~autoCall}
    ELSE IF scenario = "repeat" THEN {step < RepeatEnabling}
    ELSE BOOLEAN

ToggleAutoCall(socket) ==
    /\ readyState[socket] = "OPEN"
    /\ \E enabled \in ToggleInputs :
          /\ Happens([type |-> "toggle_auto_call", socket |-> socket, playerId |-> "",
                      enabled |-> enabled])
          /\ toggleAutoCall(enabled)

ClearNumbers(socket) == Receive(socket, "clear_numbers", "") /\ clearCalledNumbers

Ping(socket, playerId) == Receive(socket, "ping", playerId) /\ handlePing(socket, playerId)

GetPlayers(socket) == Receive(socket, "get_players", "") /\ sendPlayersUpdate(socket)

UnknownType(socket) == Receive(socket, "unknown", "") /\ handleUnknownType(socket)

ParseFailure(socket) == Receive(socket, "malformed", "") /\ handleParseFailure(socket)

Next ==
    \/ \E socket \in Sockets : WebSocketOpen(socket)
    \/ \E socket \in Sockets : WebSocketClose(socket)
    \/ \E socket \in Sockets : AdminAuth(socket)
    \/ \E socket \in Sockets, playerId \in PlayerIds : PlayerConnect(socket, playerId)
    \/ \E socket \in Sockets, playerId \in PlayerIds : PlayerRegister(socket, playerId)
    \/ \E socket \in Sockets, playerId \in PlayerIds : MarkNumber(socket, playerId)
    \/ \E socket \in Sockets, playerId \in PlayerIds : ClaimWin(socket, playerId)
    \/ \E socket \in Sockets : StartGame(socket)
    \/ \E socket \in Sockets : PauseGame(socket)
    \/ \E socket \in Sockets : EndGame(socket)
    \/ \E socket \in Sockets : CallNumber(socket)
    \/ \E socket \in Sockets : ToggleAutoCall(socket)
    \/ \E socket \in Sockets : ClearNumbers(socket)
    \/ \E socket \in Sockets, playerId \in PlayerIds : Ping(socket, playerId)
    \/ \E socket \in Sockets : GetPlayers(socket)
    \/ \E socket \in Sockets : UnknownType(socket)
    \/ \E socket \in Sockets : ParseFailure(socket)
    \/ PingTimer
    \/ AutoCallTimer
    \/ AdvanceTime
    \/ Return

\* The serving process, from the construction of BingoServer on.  cleanup, the
\* listener of the unload event, cancels the heartbeat and the auto-call timer
\* of a process that handles no event afterwards; it is not a step of Next.
Spec == Init /\ [][Next]_vars

\* The "sweep" runs under the scheduling of the runtime: the clock moves on,
\* the heartbeat interval set in the constructor fires again and again, and
\* every handler that is not stuck in a loop returns.
SweepInit == Init /\ scenario = "sweep"

SweepNext ==
    \/ \E socket \in Sockets : WebSocketOpen(socket)
    \/ \E socket \in Sockets : WebSocketClose(socket)
    \/ \E socket \in Sockets, playerId \in PlayerIds : PlayerConnect(socket, playerId)
    \/ \E socket \in Sockets, playerId \in PlayerIds : Ping(socket, playerId)
    \/ PingTimer
    \/ AdvanceTime
    \/ Return

SweepSpec ==
    /\ SweepInit
    /\ [][SweepNext]_vars
    /\ WF_vars(Return)
    /\ SF_vars(AdvanceTime)
    /\ SF_vars(PingTimer)

\* ================================================================ claims
MarkedNumbersOf(ps, id) == GetPlayer(ps, id).markedNumbers

\* Some player other than the sender of the event is connected on an OPEN socket.
OtherPlayerListening ==
    \E i \in 1..Len(players) :
        /\ players[i].connected
        /\ readyState[players[i].socket] = "OPEN"
        /\ players[i].socket # op.socket

\* An authenticated admin is connected on a socket other than the sender's.
AdminListening == AdminOpen(admin, readyState) /\ admin[1].socket # op.socket

\* C1: in every reachable state calledNumbers holds no value twice and every
\* value in it lies in 1..75.
C1_CalledNumbersDistinctInRange ==
    /\ \A i \in 1..Len(calledNumbers) : calledNumbers[i] \in 1..maxNumber
    /\ \A i, j \in 1..Len(calledNumbers) : i # j => calledNumbers[i] # calledNumbers[j]

\* C1 witness: a draw has just been appended behind two earlier ones, 75 among them.
C1_Witness ==
    /\ op.type \in {"call_number", "auto_call"}
    /\ Len(calledNumbers) >= 3
    /\ maxNumber \in Range(calledNumbers)

\* C2: in every reachable state currentBalance = totalIncome - totalPayout.
C2_BalanceIsIncomeMinusPayout ==
    finance.currentBalance = finance.totalIncome - finance.totalPayout

\* C2 witness: a registration is booked after a payout was made.
C2_Witness ==
    /\ op.type = "player_register"
    /\ finance.totalPayout > 0
    /\ finance.totalIncome > 0
    /\ sent # << >>

ClaimFails(playerId) ==
    \/ status # "playing"
    \/ ~HasPlayer(players, playerId)
    \/ Len(MarkedNumbersOf(players, playerId)) < WinThreshold

\* C4: a claim_win that fails changes nothing of the session and sends exactly
\* one message, an error to the claiming socket; when the phase is not
\* 'playing' that error is the state error.
C4_FailedClaimChangesNothing ==
    [][ (op'.type = "claim_win" /\ ClaimFails(op'.playerId))
        => /\ UNCHANGED <<sessionVars, readyState, now>>
           /\ Len(sent') = 1
           /\ sent'[1].to = op'.socket
           /\ sent'[1].type = "error"
           /\ (status # "playing" => sent'[1].message = "Game is not active") ]_vars

\* C4 witness: a claim of a player with too few marks was refused during a
\* round while the admin and another player were listening.
C4_Witness ==
    /\ op.type = "claim_win"
    /\ status = "playing"
    /\ Len(sent) = 1
    /\ sent[1].type = "error"
    /\ sent[1].message = "No winning pattern found"
    /\ AdminListening
    /\ OtherPlayerListening

\* The label the claim's board type selects.
ExpectedPattern(boardType) ==
    CASE boardType \in {"75ball", "50ball"} -> "Row Pattern"
      [] boardType = "90ball" -> "Line Pattern"
      [] boardType = "pattern" -> "Special Pattern"
      [] OTHER -> "Full House"

\* floor(0.97 * 0.8 * 90 * stake) = floor(69.84 * stake)
ExpectedPayout(stake) == (6984 * stake) \div 100

\* C5: a claim_win during 'playing' by a registered player with at least five
\* marks appends exactly one winner, labelled by the claim's board type and
\* paid floor(0.97 * 0.8 * 90 * stake); totalPayout grows and currentBalance
\* shrinks by that amount.  Stake 100 on '90ball' gives "Line Pattern", 6984.
C5_SuccessfulClaimPays ==
    [][ (op'.type = "claim_win" /\ ~ClaimFails(op'.playerId))
        => LET player == GetPlayer(players, op'.playerId)
               payout == ExpectedPayout(player.stake)
               record == winners'[Len(winners')]
           IN  /\ Len(winners') = Len(winners) + 1
               /\ SubSeq(winners', 1, Len(winners)) = winners
               /\ record.playerId = op'.playerId
               /\ record.name = player.name
               /\ record.pattern = ExpectedPattern(op'.boardType)
               /\ record.amount = payout
               /\ finance'.totalPayout = finance.totalPayout + payout
               /\ finance'.currentBalance = finance.currentBalance - payout
               /\ finance'.totalIncome = finance.totalIncome
               /\ (player.stake = 100 /\ op'.boardType = "90ball")
                     => (record.pattern = "Line Pattern" /\ record.amount = 6984) ]_vars

\* C5 witness: the claim of the spec's example has just been paid.
C5_Witness ==
    /\ op.type = "claim_win"
    /\ op.boardType = "90ball"
    /\ winners # << >>
    /\ winners[Len(winners)].pattern = "Line Pattern"
    /\ winners[Len(winners)].amount = 6984
    /\ finance.totalPayout = 6984

\* C6: the phase changes only in a step handling a message that arrived on
\* the socket of the authenticated admin.
C6_PhaseChangesAreAdminOnly ==
    [][ status' # status
        => /\ op'.type \in {"start_game", "pause_game", "end_game"}
           /\ admin # << >>
           /\ admin[1].authenticated
           /\ op'.socket = admin[1].socket ]_vars

\* The phase changes the state machine of the spec allows.
AllowedPhaseChanges ==
    { <<"waiting", "playing">>, <<"playing", "paused">>, <<"paused", "playing">>,
      <<"playing", "ended">>, <<"paused", "ended">>, <<"ended", "playing">> }

\* C7: every phase change is one of the six allowed ones, and start_game in
\* 'playing' or 'paused' leaves the phase as it is.
C7_OnlyAllowedPhaseChanges ==
    [][ /\ status' # status => <<status, status'>> \in AllowedPhaseChanges
        /\ (op'.type = "start_game" /\ status \in {"playing", "paused"})
              => status' = status ]_vars

\* C8: a player's marked numbers grow only in a step taken in 'playing'.
C8_MarksGrowOnlyWhilePlaying ==
    [][ \A id \in PlayerIds :
          (/\ HasPlayer(players, id)
           /\ HasPlayer(players', id)
           /\ Len(MarkedNumbersOf(players', id)) > Len(MarkedNumbersOf(players, id)))
          => status = "playing" ]_vars

\* C9: callRandomNumber outside 'playing', from call_number or from the
\* auto-call timer, changes nothing of the session and sends nothing.
C9_CallOutsidePlayingIsNoOp ==
    [][ (op'.type \in {"call_number", "auto_call"} /\ status # "playing")
        => /\ UNCHANGED <<sessionVars, readyState, now>>
           /\ sent' = << >> ]_vars

\* C9 witness: the auto-call timer has fired during a pause, with numbers
\* called and the admin and a player listening.
C9_Witness ==
    /\ op.type = "auto_call"
    /\ status = "paused"
    /\ calledNumbers # << >>
    /\ sent = << >>
    /\ AdminOpen(admin, readyState)
    /\ \E i \in 1..Len(players) :
          players[i].connected /\ readyState[players[i].socket] = "OPEN"

C11_ToggleOnThenOff ==
    /\ [](scenario = "switch" /\ step = Len(SwitchScript)
            => /\ Len(calledNumbers) = 1
               /\ currentNumber = calledNumbers[1]
               /\ ~autoCall
               /\ autoCallInterval = Null
               /\ intervals = {}
               /\ op.type # "auto_call")
    /\ [][ op'.type = "toggle_auto_call"
           => /\ UNCHANGED <<calledNumbers, currentNumber>>
              /\ (op'.enabled /\ ~autoCall /\ autoCallInterval = Null /\ intervals = {})
                    => /\ autoCall'
                       /\ autoCallInterval' # Null
                       /\ intervals' = {autoCallInterval'}
              /\ (~op'.enabled /\ intervals \subseteq {autoCallInterval})
                    => /\ ~autoCall'
                       /\ autoCallInterval' = Null
                       /\ intervals' = {} ]_vars

\* C11 witness: the second toggle of the "switch" run, the disabling one, has
\* just been handled and its game_state has reached the admin.
C11_Witness ==
    /\ scenario = "switch"
    /\ step = Len(SwitchScript)
    /\ op.type = "toggle_auto_call"
    /\ ~op.enabled
    /\ Len(sent) = 1
    /\ calledNumbers # << >>

\* The updates only the send*ToAdmin methods produce.
AdminOnlyTypes == {"called_numbers", "winners_update", "finance_update"}

\* Message i of the running handler is its reply to the sender: the game_state
\* of player_connect or the players_update of get_players.
ReplyToSender(i) ==
    /\ sent[i].to = op.socket
    /\ \/ sent[i].type = "game_state" /\ op.type = "player_connect"
       \/ sent[i].type = "players_update" /\ op.type = "get_players"

\* C12: at most one connection is the authenticated admin.  Every admin update
\* a handler sends goes to the one connection in the admin slot; the slot
\* never holds a closed connection; a successful admin_auth puts the sender in
\* the slot, replacing an earlier admin, a failed one leaves the slot alone;
\* the close of the admin's connection empties the slot; nothing else changes
\* it.
C12_AtMostOneAdmin ==
    /\ [](/\ Len(admin) <= 1
          /\ admin # << >> => readyState[admin[1].socket] # "CLOSED"
          /\ \A i \in DOMAIN sent :
                (\/ sent[i].type \in AdminOnlyTypes
                 \/ sent[i].type \in {"game_state", "players_update"} /\ ~ReplyToSender(i))
                => (admin # << >> /\ sent[i].to = admin[1].socket))
    /\ [][ /\ op'.type = "admin_auth"
              => IF \E i \in DOMAIN sent' : sent'[i].type = "auth_success"
                 THEN admin' = << [socket |-> op'.socket, authenticated |-> TRUE] >>
                 ELSE admin' = admin
           /\ (op'.type = "close" /\ admin # << >> /\ admin[1].socket = op'.socket)
              => admin' = << >>
           /\ admin' # admin => op'.type \in {"admin_auth", "close"} ]_vars

\* C12 witness: the admin's connection, which also carried the only player,
\* has just closed: the slot is empty and the player was not touched.
C12_Witness ==
    /\ op.type = "close"
    /\ admin = << >>
    /\ Len(players) = 1
    /\ players[1].socket = op.socket
    /\ players[1].connected
    /\ \E s \in Sockets : readyState[s] = "OPEN"

\* C13: end to end.  From the initial state, player_connect of a new id, then
\* player_register with stake 50, then start_game, then k call_number, nothing
\* else in between, give calledNumbers of length k, all distinct and within
\* 1..75, and totalIncome = 50.  In an "e2e" run `step` counts the events of
\* that session, so k = step - 4.
C13_EndToEnd ==
    scenario = "e2e"
    => /\ step >= 2 => (Len(players) = 1 /\ players[1].id = "p1")
       /\ step >= 3 => (finance.totalIncome = 50 /\ players[1].stake = 50)
       /\ step >= 4
            => /\ status = "playing"
               /\ Len(calledNumbers) = step - 4
               /\ \A i \in 1..Len(calledNumbers) : calledNumbers[i] \in 1..maxNumber
               /\ \A i, j \in 1..Len(calledNumbers) :
                     i # j => calledNumbers[i] # calledNumbers[j]
               /\ finance.totalIncome = 50

\* C13 witness: the third call_number of the session has just been handled.
C13_Witness ==
    /\ scenario = "e2e"
    /\ step = 7
    /\ op.type = "call_number"
    /\ Len(calledNumbers) = 3
    /\ finance.totalIncome = 50

\* The sockets of the registry entries flagged connected whose transport is
\* OPEN, in registry order.
LiveSockets(ps, rs) ==
    LET live == SelectSeq(ps, LAMBDA p : p.connected /\ rs[p.socket] = "OPEN")
    IN  [i \in 1..Len(live) |-> live[i].socket]

\* The sockets the messages of one type were sent to, in order.
Recipients(msgs, type) ==
    LET of == SelectSeq(msgs, LAMBDA m : m.type = type)
    IN  [i \in 1..Len(of) |-> of[i].to]

BroadcastTypes ==
    {"game_started", "game_paused", "game_resumed", "game_ended", "number_called",
     "winner_declared", "player_joined", "player_left"}

\* The message the handler of event e, started in the current state,
\* broadcasts to all players, or "none".
Broadcast(e) ==
    IF e.type = "start_game" /\ status \in {"waiting", "ended"} THEN "game_started"
    ELSE IF e.type = "pause_game" /\ status = "playing" THEN "game_paused"
    ELSE IF e.type = "pause_game" /\ status = "paused" THEN "game_resumed"
    ELSE IF e.type = "end_game" THEN "game_ended"
    ELSE IF /\ e.type \in {"call_number", "auto_call"}
            /\ status = "playing"
            /\ Cardinality(Range(calledNumbers)) < maxNumber
    THEN "number_called"
    ELSE IF e.type = "claim_win" /\ ~ClaimFails(e.playerId) THEN "winner_declared"
    ELSE IF e.type = "player_register" /\ HasPlayer(players, e.playerId)
    THEN "player_joined"
    ELSE IF /\ e.type = "close"
            /\ ~(admin # << >> /\ admin[1].socket = e.socket)
            /\ \E i \in 1..Len(players) : players[i].socket = e.socket
    THEN "player_left"
    ELSE "none"

\* C14: a broadcast to all players is delivered to exactly the registry
\* entries that are flagged connected and whose transport is open, once per
\* entry, and to no one else; with no such entry nothing is delivered, and an
\* end_game in 'ended' with no such entry changes nothing at all.
C14_BroadcastReachesLivePlayers ==
    [][ /\ \A type \in BroadcastTypes :
             Recipients(sent', type) =
                 IF type = Broadcast(op') THEN LiveSockets(players', readyState')
                 ELSE << >>
        /\ (/\ op'.type = "end_game"
            /\ status = "ended"
            /\ LiveSockets(players, readyState) = << >>)
           => /\ UNCHANGED <<sessionVars, readyState, now>>
              /\ \A i \in DOMAIN sent' : sent'[i].type \notin BroadcastTypes ]_vars

\* C14 witness: player_joined has just gone to the one live entry of a
\* registry of two; the other is flagged connected on a closed socket.
C14_Witness ==
    /\ op.type = "player_register"
    /\ Len(players) = 2
    /\ \E i \in 1..2 : players[i].connected /\ readyState[players[i].socket] = "CLOSED"
    /\ Len(LiveSockets(players, readyState)) = 1
    /\ Recipients(sent, "player_joined") = LiveSockets(players, readyState)

\* C15: every callRandomNumber started in 'playing', from call_number or from
\* the auto-call timer, completes within its handler: the draw loop ends and
\* a number not called before is appended, however many were called before.
C15_DrawAlwaysCompletes ==
    [][ (op'.type \in {"call_number", "auto_call"} /\ status = "playing")
        => /\ ~spinning'
           /\ Len(calledNumbers') = Len(calledNumbers) + 1
           /\ calledNumbers'[Len(calledNumbers')] \notin Range(calledNumbers) ]_vars

\* C16: pause_game, end_game and start_game never change the autoCall flag or
\* cancel the auto-call timer.  With auto-call enabled and the game paused or
\* ended (or waiting) the timer keeps firing, each firing a no-op; in 'playing'
\* a firing draws a number (as long as one is left to draw), no new
\* toggle_auto_call needed; the flag and the timer change only in
\* toggle_auto_call, and only toggle_auto_call(false) stops the timer.
C16_OnlyToggleStopsAutoCall ==
    /\ []((/\ op = IdleEvent
           /\ intervals # {}
           /\ "auto_call" \in ScenarioEvents(scenario)
           /\ status # "playing")
          => ENABLED AutoCallTimer)
    /\ [][ /\ op'.type \in {"start_game", "pause_game", "end_game"}
              => UNCHANGED <<autoCall, autoCallInterval, intervals>>
           /\ <<autoCall, autoCallInterval, intervals>>' # <<autoCall, autoCallInterval, intervals>>
              => op'.type = "toggle_auto_call"
           /\ (intervals # {} /\ intervals' = {})
              => (op'.type = "toggle_auto_call" /\ ~op'.enabled)
           /\ (op'.type = "auto_call" /\ status # "playing")
              => (UNCHANGED <<sessionVars, readyState, now>> /\ sent' = << >>)
           /\ (/\ op'.type = "auto_call"
               /\ status = "playing"
               /\ Cardinality(Range(calledNumbers)) < maxNumber)
              => /\ Len(calledNumbers') = Len(calledNumbers) + 1
                 /\ currentNumber' = calledNumbers'[Len(calledNumbers')] ]_vars

\* C16 witness: end_game has just been handled in a round with a number
\* called and auto-call enabled; the flag is still set and the timer is live.
C16_Witness ==
    /\ op.type = "end_game"
    /\ status = "ended"
    /\ calledNumbers # << >>
    /\ autoCall
    /\ intervals # {}
    /\ AdminOpen(admin, readyState)

\* The values Date.now() takes in a run.
Times == { k * TimeStep : k \in 0..MaxTicks }

\* Player id is in the registry and its last sign of life dates from t.
SilentSince(id, t) == HasPlayer(players, id) /\ GetPlayer(players, id).lastPing = t

\* C17: a heartbeat sweep removes every player whose lastPing is more than 120
\* seconds old at the time of the sweep, open connection or not, and no other
\* player, so right after a sweep no such player is left; and with the clock
\* and the heartbeat timer running, a player whose lastPing is no longer
\* refreshed is eventually removed (the clock of a run stops at
\* MaxTicks * TimeStep, so this is said of a lastPing more than 120 seconds
\* before that).
C17_SweepRemovesSilentPlayers ==
    /\ [][ op'.type = "pingClients"
           => /\ players' = SelectSeq(players, LAMBDA p : now - p.lastPing <= PingTimeout)
              /\ \A i \in 1..Len(players') : now - players'[i].lastPing <= PingTimeout ]_vars
    /\ \A id \in PlayerIds, t \in Times :
          (SilentSince(id, t) /\ t + PingTimeout < MaxTicks * TimeStep)
              ~> ~SilentSince(id, t)

\* C17 witness: a sweep has just removed two players at once, none of whose
\* connections was ever closed, and left the registry empty.
C17_Witness ==
    /\ op.type = "pingClients"
    /\ Len(op.disconnectedPlayers) = 2
    /\ players = << >>
    /\ \A s \in Sockets : readyState[s] = "OPEN"

\* What a player record is apart from its connection: id, name, contact,
\* stake, board type, board identifier and marked numbers.
Profile(player) ==
    [id |-> player.id, name |-> player.name, phone |-> player.phone,
     stake |-> player.stake, boardType |-> player.boardType,
     boardId |-> player.boardId, markedNumbers |-> player.markedNumbers]

\* C18: a player_connect with an id the registry holds reuses the record and
\* puts the sender's socket into it: no entry is added, every other entry is
\* untouched, and the record's id, name, contact, stake, board type, board
\* identifier and marked numbers stay as they were, whatever playerName the
\* message carries (the connected flag and lastPing are refreshed with the
\* handle).
C18_ReconnectReusesRecord ==
    [][ (op'.type = "player_connect" /\ HasPlayer(players, op'.playerId))
        => LET i == PlayerIndex(players, op'.playerId)
           IN  /\ Len(players') = Len(players)
               /\ \A j \in 1..Len(players) : j # i => players'[j] = players[j]
               /\ players'[i].socket = op'.socket
               /\ Profile(players'[i]) = Profile(players[i]) ]_vars

\* C18 witness: a registered player with marks on the card has just
\* reconnected on another socket; the old one is still open.
C18_Witness ==
    /\ op.type = "player_connect"
    /\ Len(players) = 1
    /\ players[1].name = "Bob"
    /\ players[1].stake = 100
    /\ Len(players[1].markedNumbers) >= 2
    /\ players[1].socket = op.socket
    /\ \A s \in Sockets : readyState[s] = "OPEN"

\* C19: a message whose type no case of handleMessage names leaves the whole
\* session (phase, called numbers, registry, winners, finance, admin,
\* auto-call) as it was, sends exactly one message, an error to the sending
\* connection, and leaves that connection open.
C19_UnknownTypeOnlyReportsError ==
    [][ op'.type = "unknown"
        => /\ UNCHANGED <<sessionVars, readyState, now>>
           /\ readyState'[op'.socket] = "OPEN"
           /\ Len(sent') = 1
           /\ sent'[1].to = op'.socket
           /\ sent'[1].type = "error" ]_vars

\* C19 witness: an unknown message has just been answered in the middle of a
\* round, with numbers called, a player in the registry and an admin logged in.
C19_Witness ==
    /\ op.type = "unknown"
    /\ Len(sent) = 1
    /\ sent[1].message = "Unknown message type"
    /\ status = "playing"
    /\ calledNumbers # << >>
    /\ players # << >>
    /\ admin # << >>

\* C20: winners is append-only: in every step the winners of before are a
\* prefix of the winners of after, records unaltered; and start_game,
\* pause_game, end_game and clear_numbers leave winners and finance as they
\* were, so both accumulate over the rounds.
C20_WinnersAppendOnly ==
    [][ /\ Len(winners') >= Len(winners)
        /\ SubSeq(winners', 1, Len(winners)) = winners
        /\ op'.type \in {"start_game", "pause_game", "end_game", "clear_numbers"}
           => UNCHANGED <<winners, finance>> ]_vars

\* C20 witness: a round has just been ended with two winners on record, both
\* paid, the second appended behind the first.
C20_Witness ==
    /\ op.type = "end_game"
    /\ status = "ended"
    /\ Len(winners) = 2
    /\ finance.totalPayout = winners[1].amount + winners[2].amount
    /\ winners[2].amount > 0

\* C21: the close of a connection a player has left behind changes nothing
\* for that player.  In a "handover" run, where p1 connects on socket 1,
\* connects again on socket 2 one TimeStep later, and socket 1 closes one
\* TimeStep after that, p1 is still connected on socket 2 once the close is
\* handled, with the lastPing of the reconnect, and no player_left is sent.
\* In every run a close leaves alone every record whose socket is not the
\* closing one (so a player is marked disconnected by a close only if the
\* closing socket is its current one), it removes no record, and it sends
\* player_left only if some record holds the closing socket.
C21_SupersededCloseIgnored ==
    /\ [](scenario = "handover" /\ step = Len(HandoverScript)
            => /\ Len(players) = 1
               /\ players[1].id = "p1"
               /\ players[1].connected
               /\ players[1].socket = 2
               /\ players[1].lastPing = TimeStep
               /\ now = 2 * TimeStep
               /\ sent = << >>)
    /\ [][op'.type = "close"
            => /\ Len(players') = Len(players)
               /\ \A i \in 1..Len(players) :
                     /\ players[i].socket # op'.socket => players'[i] = players[i]
                     /\ players[i].connected /\ ~players'[i].connected
                          => players[i].socket = op'.socket
               /\ (\A i \in 1..Len(players) : players[i].socket # op'.socket)
                     => \A k \in 1..Len(sent') : sent'[k].type # "player_left"]_vars

\* C21 witness: the close of socket 1 has just been handled at the end of a
\* "handover" run: socket 1, on which p1 first connected, is CLOSED, and p1 is
\* connected on socket 2, which is OPEN.
C21_Witness ==
    /\ scenario = "handover"
    /\ step = Len(HandoverScript)
    /\ op.type = "close"
    /\ op.socket = 1
    /\ readyState[1] = "CLOSED"
    /\ readyState[2] = "OPEN"
    /\ players # << >>
    /\ players[1].connected
    /\ players[1].socket = 2
    /\ players[1].lastPing < now

\* C22: in every state the current number is null exactly when no number is
\* called, and otherwise it is the last of the called numbers.
C22_CurrentIsLastCalled ==
    /\ currentNumber = Null <=> calledNumbers = << >>
    /\ calledNumbers # << >> => currentNumber = calledNumbers[Len(calledNumbers)]

\* C22 witness: a number has just been drawn behind a different one and
\* announced, and it is the current number.
C22_Witness ==
    /\ op.type \in {"call_number", "auto_call"}
    /\ Len(calledNumbers) = 2
    /\ currentNumber = calledNumbers[2]
    /\ currentNumber # calledNumbers[1]
    /\ Len(sent) > 0

====
